---- MODULE Spec2Model ----
(***************************************************************************)
(* Veriff KYC server: the upstream API client (VeriffAPI) with its         *)
(* credential pool and rotate-on-failure request loop, the session         *)
(* aggregator (getRelavantSessionData), webhook signature verification,    *)
(* the express routes and the DecisionEvents handler.                      *)
(***************************************************************************)
EXTENDS Integers, Sequences, FiniteSets, TLC

\* ------------------------------------------------------------------ bounds
MaxPoolSize == 2      \* pools of 1..MaxPoolSize credential pairs
MaxFaults == 2        \* transport faults observed on one isolated call
MaxAttempts == 1      \* verification attempts of a session
MaxMedia == 1         \* images, and videos, of an attempt
MaxRejections == 1    \* JSON uploads of one webhook that the document store refuses
MaxRing == 5          \* pools of 1..MaxRing pairs where only rotation is exercised
MaxConcurrent == 3    \* calls in flight together where every request is recorded

\* ------------------------------------------------------------- JS values
Null == [t |-> "null"]
Undefined == [t |-> "undefined"]

\* --------------------------------------------------- upstream operations
AggregatorOps ==
  << "getSessionDecision", "getPersonForSession", "getMediaForSession",
     "getWatchlistScreeningForSession", "getINEDataForSession",
     "getCurpRegistryData", "getAttemptsForSession" >>

BatchOps == { AggregatorOps[i] : i \in 1..Len(AggregatorOps) }

SecondWaveOps ==
  { "getMediaForAttempt", "getMediaById", "getAddressMedia", "getAddressMediaById" }

Ops == BatchOps \cup SecondWaveOps

StreamOps == { "getMediaById", "getAddressMediaById" }

ResponseType(op) == IF op \in StreamOps THEN "stream" ELSE "json"

\* ------------------------------------------------------------------ state
VARIABLES
  apiKeyPairs,    \* VeriffAPI.apiKeyPairs: the configured credential pairs
  currentIndex,   \* VeriffAPI.currentIndex: 0-based cursor into apiKeyPairs
  veriffAPI,      \* VeriffAPI.veriffAPI: the axios instance and its default headers
  calls,          \* one performRequest activation per public operation
  catching,       \* the operation whose catch block is running, or "none"
  aggregator,     \* the activation of getRelavantSessionData
  tried,          \* isolated call: the requests it sent, in order
  answers,        \* isolated call: the outcome of each request, in order
  rotations,      \* isolated call: the times the axios instance was replaced
  startIndex,     \* isolated call: currentIndex when the call began
  verified,       \* the last isSignatureValid evaluation
  request,        \* the webhook request being served by its express route
  res,            \* the responses the code sends for it, in order
  handler,        \* the webhook handler instance and its position in handleWebhook
  sharepoint,     \* the document store: folders and files
  uploads,        \* JSON uploads started and not yet finished, oldest first
  upstream        \* what the provider holds for the session of the webhook

vars ==
  << apiKeyPairs, currentIndex, veriffAPI, calls, catching, aggregator, tried,
     answers, rotations, startIndex, verified, request, res, handler, sharepoint,
     uploads, upstream >>

observerVars == << tried, answers, rotations, startIndex >>

webVars == << request, res, handler, sharepoint, uploads, upstream >>

\* ------------------------------------------------------- credential pool
KeyPair(i) == [apiKey |-> << "k", i >>, sharedSecretKey |-> << "s", i >>]

NoKey == << "none", 0 >>

PoolSize == Len(apiKeyPairs)

\* getCurrentKeyPair(): this.apiKeyPairs[this.currentIndex]
\* (an index outside the array reads undefined: no key)
GetCurrentKeyPair(idx) ==
  IF idx + 1 \in DOMAIN apiKeyPairs THEN apiKeyPairs[idx + 1]
  ELSE [apiKey |-> NoKey, sharedSecretKey |-> NoKey]

\* init(): a fresh axios instance whose X-AUTH-CLIENT default is the current
\* apiKey; `serial` tells an instance from the one it replaces
InitInstance(idx, old) ==
  [client |-> GetCurrentKeyPair(idx).apiKey, serial |-> 1 - old.serial]

\* switchToNextKeyPair(): the new value of currentIndex
NextIndexStuck(idx) == idx

NextIndexOffByOne(idx) == (idx + 1) % (PoolSize + 1)

NextIndexSaturating(idx) == IF idx + 1 < PoolSize THEN idx + 1 ELSE idx

NextIndex(idx) == (idx + 1) % PoolSize

\* the cursor advanced twice by one rotation
SwitchToNextKeyPairTwice ==
  /\ currentIndex' = NextIndex(NextIndex(currentIndex))
  /\ veriffAPI' = InitInstance(currentIndex', veriffAPI)

\* the cursor advanced while the instance is kept
SwitchToNextKeyPairNoInit ==
  /\ currentIndex' = NextIndex(currentIndex)
  /\ veriffAPI' = veriffAPI

\* switchToNextKeyPair(): advance the cursor, then init()
SwitchToNextKeyPair ==
  /\ currentIndex' = NextIndex(currentIndex)
  /\ veriffAPI' = InitInstance(currentIndex', veriffAPI)

\* the signature always made with the secret of the first pair
RequestFirstSecret(inst, idx) ==
  [client |-> inst.client, secret |-> apiKeyPairs[1].sharedSecretKey, cred |-> idx]

\* veriffAPI.request(): the defaults of the instance plus the interceptor's
\* signature, computed with the shared secret of the pair current at that time
Request(inst, idx) ==
  [client |-> inst.client, secret |-> GetCurrentKeyPair(idx).sharedSecretKey, cred |-> idx]

\* ------------------------------------------------------ performRequest
Idle ==
  [pc |-> "idle", attemptsLeft |-> 0,
   ret |-> Undefined, status |-> "pending", value |-> Undefined]

\* what the upstream sends for a request it accepts
ResponseOf(op) == [t |-> IF ResponseType(op) = "stream" THEN "stream" ELSE "data", op |-> op]

\* The public operation's continuation after `await this.performRequest(url)`:
\* the settled state of the operation's promise.
ThrowingOps == { "getAttemptsForSession", "getPersonForSession" }

Fulfilled(v) == [status |-> "fulfilled", value |-> v]

Rejected == [status |-> "rejected", value |-> [t |-> "TypeError"]]

Falsy(v) == v \in { Null, Undefined }

Settle(op, response) ==
  IF op \in ThrowingOps
    THEN IF Falsy(response) THEN Rejected    \* response.verifications / response.person
         ELSE Fulfilled([t |-> "part", op |-> op])
  ELSE IF op \in StreamOps
    THEN IF Falsy(response) THEN Fulfilled(Undefined)     \* if (response) { ... }
         ELSE Fulfilled([t |-> "media", op |-> op])
  ELSE Fulfilled(response)

\* performRequest returned `response`
Done(op, response) ==
  [pc |-> "done", attemptsLeft |-> 0, ret |-> response,
   status |-> Settle(op, response).status, value |-> Settle(op, response).value]

InFlight == { op \in Ops : calls[op].pc = "wait" }

\* performRequest entered: attemptsLeft = apiKeyPairs.length, first request sent
Enter(op) ==
  [pc |-> "wait", attemptsLeft |-> PoolSize,
   ret |-> Undefined, status |-> "pending", value |-> Undefined]

StartCalls(S) ==
  /\ InFlight = {}
  /\ catching = "none"
  /\ calls' = [op \in Ops |-> IF op \in S THEN Enter(op) ELSE Idle]
  /\ UNCHANGED << apiKeyPairs, currentIndex, veriffAPI, catching >>

\* the request resolves: return response (stream) or response.data
ReceiveSuccess(op) ==
  /\ calls[op].pc = "wait"
  /\ catching = "none"
  /\ calls' = [calls EXCEPT ![op] = Done(op, ResponseOf(op))]
  /\ UNCHANGED << apiKeyPairs, currentIndex, veriffAPI, catching >>

\* this.apiKeyPairs after a failed attempt with the pair at idx: the catch
\* block and switchToNextKeyPair read the array and never write it
PairsAfterFailureDisabled(pairs, idx) ==
  [pairs EXCEPT ![idx + 1] = [apiKey |-> NoKey, sharedSecretKey |-> NoKey]]

PairsAfterFailure(pairs, idx) == pairs

\* the give-up test of the catch block
GivesUpNever(left) == FALSE

GivesUp(left) == left = 0

\* the request rejects with an axios error that carries response.status and
\* response.data: rotate, count the attempt, give up at zero or retry
ReceiveHttpError(op) ==
  /\ calls[op].pc = "wait"
  /\ catching = "none"
  /\ SwitchToNextKeyPair
  /\ LET left == calls[op].attemptsLeft - 1
     IN calls' = [calls EXCEPT ![op] =
          IF GivesUp(left) THEN Done(op, Null)
          ELSE IF left > 0 THEN [@ EXCEPT !.attemptsLeft = left]
          ELSE Done(op, Undefined)]     \* the while loop ends: no return value
  /\ apiKeyPairs' = PairsAfterFailure(apiKeyPairs, currentIndex)
  /\ UNCHANGED catching

\* the request rejects without such a response (transport fault, or an error
\* response with no status or no body): the else branch of the catch block
\* logs the error
TransportFault(op) ==
  /\ calls[op].pc = "wait"
  /\ catching = "none"
  /\ catching' = op
  /\ UNCHANGED << apiKeyPairs, currentIndex, veriffAPI, calls >>

\* ... and returns nothing: attemptsLeft is untouched, so the while loop goes
\* round and sends the request again
RetryAfterFault(op) ==
  /\ catching = op
  /\ catching' = "none"
  /\ UNCHANGED << apiKeyPairs, currentIndex, veriffAPI, calls >>

\* ------------------------------------------------------ isSignatureValid
\* Webhook messages, and the three forms a payload reaches isSignatureValid in:
\* the parsed object, the JSON text, or a Buffer of the JSON text's bytes.
Messages == { "m1", "m2" }

Payloads == [form : { "object", "string", "buffer" }, msg : Messages]

\* JSON.stringify: of a parsed message its JSON text; of a Buffer the text of
\* {"type":"Buffer","data":[...]}, since typeof buffer is 'object' too
Stringify(payload) ==
  IF payload.form = "buffer" THEN [text |-> "bufferJson", msg |-> payload.msg]
  ELSE [text |-> "json", msg |-> payload.msg]

Utf8(text) == [bytes |-> text]

\* the payload as the bytes that are digested
CanonicalBytes(payload) ==
  LET str == IF payload.form \in { "object", "buffer" }   \* typeof payload === 'object'
               THEN Stringify(payload)
             ELSE [text |-> "json", msg |-> payload.msg]
  IN Utf8(str)    \* a string is never a Buffer: Buffer.from(payload, 'utf8')

\* crypto.createHmac('sha256', key).update(bytes).digest('hex'): one digest
\* per key and input (no collisions)
HmacSha256(key, bytes) == [key |-> key, over |-> bytes]

\* the secrets a sender may sign with: the configurable ones and a foreign one
Secrets == { KeyPair(i).sharedSecretKey : i \in 1..(MaxPoolSize + 1) }

Signatures ==
  { HmacSha256(k, Utf8([text |-> t, msg |-> m])) :
      k \in Secrets, t \in { "json", "bufferJson" }, m \in Messages }

\* the for loop over this.apiKeyPairs, from pair i on
RECURSIVE DigestMatchesFrom(_, _, _)
DigestMatchesFrom(i, signature, bytes) ==
  IF i > PoolSize THEN FALSE
  ELSE IF HmacSha256(apiKeyPairs[i].sharedSecretKey, bytes) = signature THEN TRUE
  ELSE DigestMatchesFrom(i + 1, signature, bytes)

\* only the active pair's secret is tried
IsSignatureValidActiveOnly(signature, payload) ==
  HmacSha256(GetCurrentKeyPair(currentIndex).sharedSecretKey, CanonicalBytes(payload))
    = signature

\* the loop started at the active pair instead of the first one
IsSignatureValidFromActive(signature, payload) ==
  DigestMatchesFrom(currentIndex + 1, signature, CanonicalBytes(payload))

IsSignatureValid(signature, payload) ==
  DigestMatchesFrom(1, signature, CanonicalBytes(payload))

\* `at` remembers the cursor the evaluation was made under
VerifySignature(signature, payload) ==
  /\ catching = "none"
  /\ verified' = [pc |-> "done", signature |-> signature, payload |-> payload,
                  result |-> IsSignatureValid(signature, payload),
                  at |-> currentIndex]
  /\ UNCHANGED << apiKeyPairs, currentIndex, veriffAPI, calls, catching >>

\* ----------------------------------------------------------------- Init
Init ==
  /\ \E n \in 1..MaxPoolSize : apiKeyPairs = [i \in 1..n |-> KeyPair(i)]
  /\ currentIndex = 0
  /\ veriffAPI = InitInstance(0, [serial |-> 1])
  /\ calls = [op \in Ops |-> Idle]
  /\ catching = "none"
  /\ aggregator = [pc |-> "idle"]
  /\ tried = << >>
  /\ answers = << >>
  /\ rotations = 0
  /\ startIndex = 0
  /\ verified = [pc |-> "none"]
  /\ request = [pc |-> "idle"]
  /\ res = << >>
  /\ handler = [pc |-> "none"]
  /\ sharepoint = [folders |-> {}, files |-> {}, refused |-> FALSE]
  /\ uploads = [pending |-> << >>, rejected |-> 0]
  /\ upstream = [pc |-> "none"]

\* --------------------------------------------------------- rotation alone
\* a client with a pool of any size up to MaxRing whose cursor is anywhere
InitRotate ==
  /\ \E n \in 1..MaxRing : apiKeyPairs = [i \in 1..n |-> KeyPair(i)]
  /\ currentIndex \in 0..(Len(apiKeyPairs) - 1)
  /\ veriffAPI = InitInstance(currentIndex, [serial |-> 1])
  /\ calls = [op \in Ops |-> Idle]
  /\ catching = "none"
  /\ aggregator = [pc |-> "idle"]
  /\ tried = << >>
  /\ answers = << >>
  /\ rotations = 0
  /\ startIndex = currentIndex
  /\ verified = [pc |-> "none"]
  /\ request = [pc |-> "idle"]
  /\ res = << >>
  /\ handler = [pc |-> "none"]
  /\ sharepoint = [folders |-> {}, files |-> {}, refused |-> FALSE]
  /\ uploads = [pending |-> << >>, rejected |-> 0]
  /\ upstream = [pc |-> "none"]

\* switchToNextKeyPair() called on its own, up to twice round the pool
Rotate ==
  /\ rotations < 2 * PoolSize
  /\ SwitchToNextKeyPair
  /\ rotations' = rotations + 1
  /\ UNCHANGED << apiKeyPairs, calls, catching, aggregator, tried, answers,
                  startIndex, verified, webVars >>

SpecRotate == InitRotate /\ [][Rotate]_vars

\* ------------------------------------------------- one call in isolation
NumFaults == Cardinality({ i \in DOMAIN answers : answers[i] = "fault" })

CallOperation(op) ==
  /\ StartCalls({op})
  /\ tried' = << Request(veriffAPI, currentIndex) >>
  /\ answers' = << >>
  /\ rotations' = 0
  /\ startIndex' = currentIndex
  /\ UNCHANGED << webVars, aggregator, verified >>

CallSucceeds(op) ==
  /\ ReceiveSuccess(op)
  /\ answers' = Append(answers, "ok")
  /\ UNCHANGED << webVars, aggregator, tried, rotations, startIndex, verified >>

CallHttpError(op) ==
  /\ ReceiveHttpError(op)
  /\ answers' = Append(answers, "http")
  /\ tried' = IF calls'[op].pc = "wait"
                THEN Append(tried, Request(veriffAPI', currentIndex'))
              ELSE tried
  /\ rotations' = IF veriffAPI'.serial # veriffAPI.serial THEN rotations + 1 ELSE rotations
  /\ UNCHANGED << webVars, aggregator, startIndex, verified >>

CallTransportFault(op) ==
  /\ NumFaults < MaxFaults
  /\ TransportFault(op)
  /\ answers' = Append(answers, "fault")
  /\ UNCHANGED << webVars, aggregator, tried, rotations, startIndex, verified >>

CallRetryAfterFault(op) ==
  /\ RetryAfterFault(op)
  /\ tried' = Append(tried, Request(veriffAPI, currentIndex))
  /\ UNCHANGED << webVars, aggregator, answers, rotations, startIndex, verified >>

NextCall ==
  \E op \in Ops :
    \/ CallOperation(op)
    \/ CallSucceeds(op)
    \/ CallHttpError(op)
    \/ CallTransportFault(op)
    \/ CallRetryAfterFault(op)

SpecCall == Init /\ [][NextCall]_vars

\* isolated calls on the larger pools, from any cursor
SpecRing == InitRotate /\ [][NextCall]_vars

\* ------------------------- signature verification between upstream calls
VerifierCall(op) ==
  /\ \/ StartCalls({op})
     \/ ReceiveSuccess(op)
     \/ ReceiveHttpError(op)
  /\ UNCHANGED << webVars, aggregator, tried, answers, rotations, startIndex, verified >>

VerifierCheck(signature, payload) ==
  /\ VerifySignature(signature, payload)
  /\ UNCHANGED << webVars, aggregator, tried, answers, rotations, startIndex >>

NextVerify ==
  \/ VerifierCall("getSessionDecision")
  \/ \E signature \in Signatures, payload \in Payloads :
       VerifierCheck(signature, payload)

SpecVerify == Init /\ [][NextVerify]_vars

\* ------------------------------------- concurrent calls, request by request
\* The first calls of a batch run together on the shared pool; `tried` records
\* every request dispatched, with its call, and `upstream` the pairs the
\* provider accepts.
ConcurrentOps == { AggregatorOps[i] : i \in 1..MaxConcurrent }

Sent(op, inst, idx) == [op |-> op, req |-> Request(inst, idx)]

\* the first requests, dispatched in call order
RECURSIVE FirstRequests(_)
FirstRequests(i) ==
  IF i > MaxConcurrent THEN << >>
  ELSE << Sent(AggregatorOps[i], veriffAPI, currentIndex) >> \o FirstRequests(i + 1)

\* the request of `op` that is awaiting its answer: the last one it dispatched
LastRequest(op) ==
  LET mine == SelectSeq(tried, LAMBDA s : s.op = op)
  IN mine[Len(mine)].req

\* the provider answers 200 to a request whose two headers are those of one
\* pair it accepts, and 401 with a body otherwise
Accepts(req) ==
  \E i \in upstream.accepts :
    /\ req.client = apiKeyPairs[i].apiKey
    /\ req.secret = apiKeyPairs[i].sharedSecretKey

CallTogether(good) ==
  /\ StartCalls(ConcurrentOps)
  /\ tried' = FirstRequests(1)
  /\ upstream' = [pc |-> "accepting", accepts |-> good]
  /\ UNCHANGED << aggregator, answers, rotations, startIndex, verified, request, res,
                  handler, sharepoint, uploads >>

Answered(op) ==
  /\ calls[op].pc = "wait"
  /\ IF Accepts(LastRequest(op)) THEN ReceiveSuccess(op) ELSE ReceiveHttpError(op)
  /\ tried' = IF calls'[op].pc = "wait"
                THEN Append(tried, Sent(op, veriffAPI', currentIndex'))
              ELSE tried
  /\ UNCHANGED << aggregator, answers, rotations, startIndex, verified, webVars >>

NextShared ==
  \/ \E good \in SUBSET DOMAIN apiKeyPairs : CallTogether(good)
  \/ \E op \in ConcurrentOps : Answered(op)

SpecShared == Init /\ [][NextShared]_vars

\* ------------------------------------------------ getRelavantSessionData
Field(op) ==
  CASE op = "getSessionDecision" -> "sessionDecision"
    [] op = "getPersonForSession" -> "personInfo"
    [] op = "getMediaForSession" -> "mediaList"
    [] op = "getWatchlistScreeningForSession" -> "watchlistScreening"
    [] op = "getINEDataForSession" -> "ineData"
    [] op = "getCurpRegistryData" -> "curpData"
    [] op = "getAttemptsForSession" -> "attempts"

Fields == { Field(op) : op \in BatchOps }

OpOf(f) == CHOOSE op \in BatchOps : Field(op) = f

\* extractValue: result.status === 'fulfilled' ? result.value : null
ExtractValue(result) == IF result.status = "fulfilled" THEN result.value ELSE Null

\* Promise.all in place of Promise.allSettled: one rejection loses every value
SessionRecordAll(settled) ==
  IF \E op \in BatchOps : settled[op].status = "rejected"
    THEN [f \in Fields |-> Null]
  ELSE [f \in Fields |-> settled[OpOf(f)].value]

\* data.map(extractValue), destructured into the seven named fields
SessionRecord(settled) == [f \in Fields |-> ExtractValue(settled[OpOf(f)])]

\* Promise.all in place of Promise.allSettled: the first rejection rejects
ResolvedAll(settled) ==
  IF \E op \in BatchOps : settled[op].status = "rejected"
    THEN [pc |-> "rejected", reason |-> Rejected.value]
  ELSE [pc |-> "returned", record |-> SessionRecord(settled)]

\* the aggregator's promise once the seven promises have settled
Resolved(settled) == [pc |-> "returned", record |-> SessionRecord(settled)]

\* the seven operations are called in order, each running to its first await
AggregatorCalled ==
  /\ aggregator.pc # "waiting"
  /\ StartCalls(BatchOps)
  /\ aggregator' = [pc |-> "waiting"]

\* Promise.allSettled resolves once every promise has settled
AllSettled ==
  /\ aggregator.pc = "waiting"
  /\ \A op \in BatchOps : calls[op].pc = "done"
  /\ catching = "none"

\* the array passed to Promise.allSettled is evaluated from left to right
\* with no await in between: the first request of each call, in that order
DispatchedReversed(ops) ==
  [i \in DOMAIN ops |-> Sent(ops[Len(ops) + 1 - i], veriffAPI, currentIndex)]

Dispatched(ops) == [i \in DOMAIN ops |-> Sent(ops[i], veriffAPI, currentIndex)]

GetRelavantSessionData ==
  /\ AggregatorCalled
  /\ tried' = Dispatched(AggregatorOps)
  /\ UNCHANGED << webVars, answers, rotations, startIndex, verified >>

AggregatorReturn ==
  /\ AllSettled
  /\ aggregator' = Resolved(calls)
  /\ UNCHANGED << apiKeyPairs, currentIndex, veriffAPI, calls, catching >>
  /\ UNCHANGED << webVars, observerVars, verified >>

BatchStep(op) ==
  /\ \/ ReceiveSuccess(op)
     \/ ReceiveHttpError(op)
     \/ TransportFault(op)
     \/ RetryAfterFault(op)
  /\ UNCHANGED << webVars, aggregator, tried, answers, rotations, startIndex, verified >>

Next ==
  \/ GetRelavantSessionData
  \/ \E op \in BatchOps : BatchStep(op)
  \/ AggregatorReturn

Spec == Init /\ [][Next]_vars

\* The event loop runs every continuation that is ready, and the network ends
\* every request one way or another: a call that can step again and again
\* does step.
SpecFair ==
  /\ Spec
  /\ WF_vars(AggregatorReturn)
  /\ \A op \in BatchOps : SF_vars(BatchStep(op))

\* ------------------------------------------------------- express routes
Routes == { "decision", "verification-event", "proof-of-address" }

HandlerClass(route) ==
  CASE route = "decision" -> "DecisionEvents"
    [] route = "verification-event" -> "VerificationEvents"
    [] route = "proof-of-address" -> "ProofOfAddress"

RouteOf(class) == CHOOSE route \in Routes : HandlerClass(route) = class

\* req.get('x-hmac-signature') of a request without the header
Missing == [key |-> NoKey, over |-> Utf8([text |-> "none", msg |-> "none"])]

Headers == Signatures \cup { Missing }

\* req.body: bodyParser.json() hands the route the parsed object
Body(msg) == [form |-> "object", msg |-> msg]

Unauthorized(route, signature) ==
  [status |-> 401,
   body |-> IF route = "decision" \/ signature = Missing THEN "Unauthorized"
            ELSE "Invalid signature"]

\* the two guards of a route: the header is there and isSignatureValid
RouteAcceptsUnverified(signature, payload) == signature # Missing

RouteAccepts(signature, payload) ==
  signature # Missing /\ IsSignatureValid(signature, payload)

\* what the bookkeeping of a webhook starts from
NoHandler == [pc |-> "none"]

EmptyStore == [folders |-> {}, files |-> {}, refused |-> FALSE]

NoUploads == [pending |-> << >>, rejected |-> 0]

\* app.post(route): up to the 401 or to the first await, inside X.new()
PostWebhook(route, signature, msg) ==
  /\ request.pc \in { "idle", "done", "crashed" }
  /\ request' = [pc |-> IF RouteAccepts(signature, Body(msg)) THEN "token" ELSE "done",
                 route |-> route, signature |-> signature, payload |-> Body(msg)]
  /\ res' = IF RouteAccepts(signature, Body(msg)) THEN << >>
            ELSE << Unauthorized(route, signature) >>
  /\ verified' = IF signature = Missing THEN verified
                 ELSE [pc |-> "done", signature |-> signature, payload |-> Body(msg),
                       result |-> IsSignatureValid(signature, Body(msg))]
  /\ handler' = NoHandler
  /\ sharepoint' = EmptyStore
  /\ uploads' = NoUploads
  /\ UNCHANGED << apiKeyPairs, currentIndex, veriffAPI, calls, catching, aggregator,
                  observerVars, upstream >>

\* the prototype's methods: handleWebhook is defined by the subclasses only
Methods(proto) ==
  IF proto = "BaseWebhookHandler" THEN { "init", "uploadMediaFiles" }
  ELSE { "init", "uploadMediaFiles", "handleWebhook" }

\* BaseWebhookHandler.new(): Object.create(BaseWebhookHandler.prototype),
\* whichever subclass it is called on
New(class) == [pc |-> "created", proto |-> "BaseWebhookHandler"]

\* init(): await getAccessToken() resolves, or throws
AccessToken(ok) ==
  /\ request.pc = "token"
  /\ request' = [request EXCEPT !.pc = IF ok THEN "digest" ELSE "crashed"]
  /\ UNCHANGED << apiKeyPairs, currentIndex, veriffAPI, calls, catching, aggregator,
                  observerVars, verified, res, handler, sharepoint, uploads, upstream >>

\* init(): await getFormDigestValue() resolves, or throws; new() returns the
\* instance and the route calls handler.handleWebhook(payload, res), a
\* TypeError when the instance has no such method: the route's promise
\* rejects and nothing is sent
FormDigestValue(ok) ==
  /\ request.pc = "digest"
  /\ handler' = IF ok THEN New(HandlerClass(request.route)) ELSE handler
  /\ request' = [request EXCEPT !.pc =
       IF ok /\ "handleWebhook" \in Methods(handler'.proto) THEN "handling"
       ELSE "crashed"]
  /\ UNCHANGED << apiKeyPairs, currentIndex, veriffAPI, calls, catching, aggregator,
                  observerVars, verified, res, sharepoint, uploads, upstream >>

NextRoute ==
  \/ \E route \in Routes, signature \in Headers, msg \in Messages :
       PostWebhook(route, signature, msg)
  \/ \E ok \in BOOLEAN : AccessToken(ok)
  \/ \E ok \in BOOLEAN : FormDigestValue(ok)

SpecRoute == Init /\ [][NextRoute]_vars

\* ------------------------------------------ DecisionEvents.handleWebhook
\* The session as the provider holds it: whether its JSON bodies carry their
\* data under a `value` property, whether the person has a first name, and how
\* many attempts the session has.
Worlds == [wrapped : BOOLEAN, firstName : BOOLEAN, attempts : 0..MaxAttempts]

\* Object.values(result): the fields in the order of the returned object
FieldOrder ==
  << "sessionDecision", "personInfo", "mediaList", "watchlistScreening",
     "ineData", "curpData", "attempts" >>

\* jsonUploadTasks, in order
JsonTasks ==
  << "personInfo", "mediaList", "attempts", "sessionDecision", "ineData",
     "curpData", "watchlistScreening" >>

\* data.value of a field that is not null
ValueOf(data, world) ==
  IF world.wrapped THEN [t |-> "value", of |-> data.op] ELSE Undefined

\* Object.values(result).every(data => data.value === undefined || data.value === null):
\* "throws" at a null field, "false" at the first field with a value
RECURSIVE EveryFrom(_, _, _)
EveryFrom(i, record, world) ==
  IF i > Len(FieldOrder) THEN "true"
  ELSE LET data == record[FieldOrder[i]]
       IN IF data = Null THEN "throws"
          ELSE IF Falsy(ValueOf(data, world)) THEN EveryFrom(i + 1, record, world)
          ELSE "false"

\* personInfo?.value?.firstName
HasFirstName(record, world) ==
  /\ record.personInfo # Null
  /\ ~Falsy(ValueOf(record.personInfo, world))
  /\ world.firstName

\* jsonUploadTasks of VerificationEvents
VerificationTasks ==
  << "personInfo", "mediaList", "attempts", "sessionDecision", "watchlistScreening" >>

\* the uploads ProofOfAddress passes to Promise.all
AddressTasks == << "personInfo", "mediaList", "sessionDecision", "watchlistScreening" >>

TasksOf(class) ==
  CASE class = "DecisionEvents" -> JsonTasks
    [] class = "VerificationEvents" -> VerificationTasks
    [] class = "ProofOfAddress" -> AddressTasks

\* the documents whose upload uploadObjectAsJSON starts: it returns early on
\* a falsy value
StartedUploads(tasks, record, world) ==
  SelectSeq(tasks,
            LAMBDA f : record[f] # Null /\ ~Falsy(ValueOf(record[f], world)))

\* data.value of a null field throws inside its async arrow: Promise.all rejects
SomeTaskThrows(tasks, record) == \E i \in DOMAIN tasks : record[tasks[i]] = Null

Answer(status, body) == [status |-> status, body |-> body]

NotFound == Answer(404, "Data not found")

Insufficient == Answer(404, "Sufficient data not found")

InternalError == Answer(500, "Internal server error")

Success == Answer(200, "success")

Folder(kind, attempt) == [kind |-> kind, attempt |-> attempt]

File(name, attempt, item) == [name |-> name, attempt |-> attempt, item |-> item]

\* handleWebhook's activation: where it is, and its loop variables
At(pc, proto, attempt, kind, item, images, videos) ==
  [pc |-> pc, proto |-> proto, attempt |-> attempt, kind |-> kind, item |-> item,
   images |-> images, videos |-> videos]

Move(pc) == [handler EXCEPT !.pc = pc]

\* handler.handleWebhook(payload, res) on an instance of the handler class:
\* the session id is read and getRelavantSessionData is called
InvokeHandler(class, msg) ==
  /\ request.pc \in { "idle", "done", "crashed" }
  /\ uploads.pending = << >>
  /\ request' = [pc |-> "handling", route |-> RouteOf(class),
                 signature |-> HmacSha256(apiKeyPairs[1].sharedSecretKey,
                                          CanonicalBytes(Body(msg))),
                 payload |-> Body(msg)]
  /\ res' = << >>
  /\ sharepoint' = EmptyStore
  /\ uploads' = NoUploads
  /\ upstream' = [pc |-> "none"]
  /\ handler' = At("aggregating", class, 0, "none", 0, 0, 0)
  /\ AggregatorCalled
  /\ UNCHANGED << observerVars, verified >>

\* the requests of the webhook's upstream calls are answered; those of the
\* batch in the order they were sent
EarlierSettled(op) ==
  \A i, j \in DOMAIN AggregatorOps :
    (AggregatorOps[j] = op /\ i < j) => calls[AggregatorOps[i]].pc = "done"

HandlerCall(op) ==
  /\ handler.pc \in { "aggregating", "addressMedia", "attemptMedia", "mediaFetch" }
  /\ op \in BatchOps => EarlierSettled(op)
  /\ \/ ReceiveSuccess(op)
     \/ ReceiveHttpError(op)
     \/ TransportFault(op)
     \/ RetryAfterFault(op)
  /\ UNCHANGED << webVars, aggregator, observerVars, verified >>

\* the handler answers and returns
Returns(answer) ==
  /\ res' = Append(res, answer)
  /\ handler' = Move("returned")

\* getRelavantSessionData resolves; lines 13-28 up to the first folder request
DecisionAggregated(world) ==
  /\ handler.pc = "aggregating"
  /\ handler.proto = "DecisionEvents"
  /\ AllSettled
  /\ aggregator' = Resolved(calls)
  /\ upstream' = world
  /\ LET record == aggregator'.record
         every == EveryFrom(1, record, world)
     IN IF every = "throws" THEN Returns(InternalError)
        ELSE IF every = "true" THEN Returns(NotFound)
        ELSE IF ~HasFirstName(record, world) THEN Returns(Insufficient)
        ELSE res' = res /\ handler' = Move("personFolder")
  /\ UNCHANGED << apiKeyPairs, currentIndex, veriffAPI, calls, catching,
                  observerVars, verified, request, sharepoint, uploads >>

\* createFolderIfNotExistInSharepoint: the folder exists afterwards, or the
\* store's error is rethrown by handleAxiosError
Created(folder) == [sharepoint EXCEPT !.folders = @ \cup { folder }]

Refused == [sharepoint EXCEPT !.refused = TRUE]

\* the error reaches handleWebhook's catch block
Caught ==
  /\ sharepoint' = Refused
  /\ Returns(InternalError)

\* for (const attempt of attempts.value): the next attempt, or the success
\* response after the last one
EnterLoop(attempt) ==
  IF attempt > upstream.attempts THEN Returns(Success)
  ELSE /\ res' = res
       /\ handler' = [handler EXCEPT !.pc = "attemptFolder", !.attempt = attempt,
                                      !.kind = "none", !.item = 0,
                                      !.images = 0, !.videos = 0]

CreatePersonFolder(ok) ==
  /\ handler.pc = "personFolder"
  /\ IF ok THEN /\ sharepoint' = Created(Folder("decision", 0))
                /\ handler' = Move("sessionFolder")
                /\ res' = res
     ELSE Caught
  /\ UNCHANGED << apiKeyPairs, currentIndex, veriffAPI, calls, catching, aggregator,
                  observerVars, verified, request, uploads, upstream >>

\* line 29, then the JSON uploads of lines 30-42 are started and line 44 is
\* reached, or one of the arrows threw
CreateSessionFolder(ok) ==
  /\ handler.pc = "sessionFolder"
  /\ IF ~ok THEN Caught /\ uploads' = uploads
     ELSE /\ sharepoint' = Created(Folder("session", 0))
          /\ uploads' = [pending |-> StartedUploads(TasksOf(handler.proto),
                                                    aggregator.record, upstream),
                         rejected |-> 0]
          /\ IF SomeTaskThrows(TasksOf(handler.proto), aggregator.record)
               THEN Returns(InternalError)
             ELSE IF Falsy(ValueOf(aggregator.record.attempts, upstream))
               THEN res' = res /\ handler' = Move("returned")
             ELSE EnterLoop(1)
  /\ UNCHANGED << apiKeyPairs, currentIndex, veriffAPI, calls, catching, aggregator,
                  observerVars, verified, request, upstream >>

CreateAttemptFolder(ok) ==
  /\ handler.pc = "attemptFolder"
  /\ IF ok THEN /\ sharepoint' = Created(Folder("attempt", handler.attempt))
                /\ handler' = Move("eventFolder")
                /\ res' = res
     ELSE Caught
  /\ UNCHANGED << apiKeyPairs, currentIndex, veriffAPI, calls, catching, aggregator,
                  observerVars, verified, request, uploads, upstream >>

\* line 52, then getMediaForAttempt(id) is called
CreateEventFolder(ok) ==
  /\ handler.pc = "eventFolder"
  /\ IF ok THEN /\ sharepoint' = Created(Folder("event", handler.attempt))
                /\ handler' = Move("attemptMedia")
                /\ res' = res
                /\ StartCalls({ "getMediaForAttempt" })
     ELSE /\ Caught
          /\ UNCHANGED << apiKeyPairs, currentIndex, veriffAPI, calls, catching >>
  /\ UNCHANGED << aggregator, observerVars, verified, request, uploads, upstream >>

\* uploadMediaFiles over the images, then over the videos: the media item the
\* loops reach from (kind, item)
NoItem == [kind |-> "none", item |-> 0]

Target(kind, item, images, videos) ==
  IF kind = "images" /\ item <= images THEN [kind |-> "images", item |-> item]
  ELSE IF kind = "images"
    THEN IF 1 <= videos THEN [kind |-> "videos", item |-> 1] ELSE NoItem
  ELSE IF item <= videos THEN [kind |-> "videos", item |-> item]
  ELSE NoItem

\* ProofOfAddress line 41: attempts.value is read
ToAttempts ==
  IF aggregator.record.attempts = Null THEN Returns(InternalError)
  ELSE IF Falsy(ValueOf(aggregator.record.attempts, upstream)) THEN Returns(Success)
  ELSE EnterLoop(1)

\* getMediaById(id) is called for the item, or the media of the attempt (of
\* the address, which comes before the attempts) are finished
Continue(target, images, videos) ==
  IF target = NoItem
    THEN /\ IF handler.attempt = 0 THEN ToAttempts ELSE EnterLoop(handler.attempt + 1)
         /\ UNCHANGED << apiKeyPairs, currentIndex, veriffAPI, calls, catching >>
  ELSE /\ handler' = At("mediaFetch", handler.proto, handler.attempt, target.kind,
                        target.item, images, videos)
       /\ res' = res
       /\ StartCalls({ "getMediaById" })

\* getMediaForAttempt has returned: attemptMedia.images is read
AttemptMediaFetched(images, videos) ==
  /\ handler.pc = "attemptMedia"
  /\ calls["getMediaForAttempt"].pc = "done"
  /\ IF Falsy(calls["getMediaForAttempt"].value)
       THEN /\ images = 0 /\ videos = 0
            /\ Returns(InternalError)
            /\ UNCHANGED << apiKeyPairs, currentIndex, veriffAPI, calls, catching >>
     ELSE Continue(Target("images", 1, images, videos), images, videos)
  /\ UNCHANGED << aggregator, observerVars, verified, request, sharepoint, uploads,
                  upstream >>

\* getMediaById has returned: without data, streamToBuffer(undefined) throws
\* and uploadFileToSharepoint rethrows it
MediaFetched ==
  /\ handler.pc = "mediaFetch"
  /\ calls["getMediaById"].pc = "done"
  /\ IF Falsy(calls["getMediaById"].value) THEN Returns(InternalError)
     ELSE res' = res /\ handler' = Move("mediaUpload")
  /\ UNCHANGED << apiKeyPairs, currentIndex, veriffAPI, calls, catching, aggregator,
                  observerVars, verified, request, sharepoint, uploads, upstream >>

\* the awaited upload of the media file settles
MediaUploaded(ok) ==
  /\ handler.pc = "mediaUpload"
  /\ IF ok
       THEN /\ sharepoint' =
                 [sharepoint EXCEPT
                    !.files = @ \cup { File(handler.kind, handler.attempt, handler.item) }]
            /\ Continue(Target(handler.kind, handler.item + 1, handler.images,
                               handler.videos),
                        handler.images, handler.videos)
     ELSE /\ Caught
          /\ UNCHANGED << apiKeyPairs, currentIndex, veriffAPI, calls, catching >>
  /\ UNCHANGED << aggregator, observerVars, verified, request, uploads, upstream >>

\* one of the JSON uploads that were started without being awaited settles;
\* nothing observes its outcome
JsonUploadSettles(ok) ==
  /\ uploads.pending # << >>
  /\ handler.pc # "jsonUploads"
  /\ ok \/ uploads.rejected < MaxRejections
  /\ uploads' = [pending |-> Tail(uploads.pending),
                 rejected |-> IF ok THEN uploads.rejected ELSE uploads.rejected + 1]
  /\ sharepoint' = IF ok THEN [sharepoint EXCEPT
                                 !.files = @ \cup { File(Head(uploads.pending), 0, 0) }]
                   ELSE sharepoint
  /\ UNCHANGED << apiKeyPairs, currentIndex, veriffAPI, calls, catching, aggregator,
                  observerVars, verified, request, res, handler, upstream >>

\* app.ts line 39: after handleWebhook has returned the route sends 200 itself
\* send() once more after the handler has answered throws (the headers are
\* sent), and the route's promise rejects
RouteReturns ==
  /\ request.pc = "handling"
  /\ handler.pc = "returned"
  /\ request' = [request EXCEPT !.pc = IF res = << >> THEN "done" ELSE "crashed"]
  /\ res' = Append(res, Answer(200, ""))
  /\ UNCHANGED << apiKeyPairs, currentIndex, veriffAPI, calls, catching, aggregator,
                  observerVars, verified, handler, sharepoint, uploads, upstream >>

NextHandler ==
  \/ InvokeHandler("DecisionEvents", "m1")
  \/ \E op \in BatchOps \cup { "getMediaForAttempt", "getMediaById" } : HandlerCall(op)
  \/ \E world \in Worlds : DecisionAggregated(world)
  \/ \E ok \in BOOLEAN : CreatePersonFolder(ok)
  \/ \E ok \in BOOLEAN : CreateSessionFolder(ok)
  \/ \E ok \in BOOLEAN : CreateAttemptFolder(ok)
  \/ \E ok \in BOOLEAN : CreateEventFolder(ok)
  \/ \E images, videos \in 0..MaxMedia : AttemptMediaFetched(images, videos)
  \/ MediaFetched
  \/ \E ok \in BOOLEAN : MediaUploaded(ok)
  \/ \E ok \in BOOLEAN : JsonUploadSettles(ok)
  \/ RouteReturns

SpecHandler == Init /\ [][NextHandler]_vars

\* -------------------------------------- VerificationEvents.handleWebhook
\* getRelavantSessionData resolves; lines 13-25: without a first name the
\* handler returns and sends nothing
VerificationAggregated(world) ==
  /\ handler.pc = "aggregating"
  /\ handler.proto = "VerificationEvents"
  /\ AllSettled
  /\ aggregator' = Resolved(calls)
  /\ upstream' = world
  /\ res' = res
  /\ handler' = IF HasFirstName(aggregator'.record, world) THEN Move("personFolder")
                ELSE Move("returned")
  /\ UNCHANGED << apiKeyPairs, currentIndex, veriffAPI, calls, catching,
                  observerVars, verified, request, sharepoint, uploads >>

NextVerification ==
  \/ InvokeHandler("VerificationEvents", "m1")
  \/ \E op \in BatchOps \cup { "getMediaForAttempt", "getMediaById" } : HandlerCall(op)
  \/ \E world \in Worlds : VerificationAggregated(world)
  \/ \E ok \in BOOLEAN : CreatePersonFolder(ok)
  \/ \E ok \in BOOLEAN : CreateSessionFolder(ok)
  \/ \E ok \in BOOLEAN : CreateAttemptFolder(ok)
  \/ \E ok \in BOOLEAN : CreateEventFolder(ok)
  \/ \E images, videos \in 0..MaxMedia : AttemptMediaFetched(images, videos)
  \/ MediaFetched
  \/ \E ok \in BOOLEAN : MediaUploaded(ok)
  \/ \E ok \in BOOLEAN : JsonUploadSettles(ok)
  \/ RouteReturns

SpecVerification == Init /\ [][NextVerification]_vars

\* ------------------------------------------ ProofOfAddress.handleWebhook
\* getRelavantSessionData resolves; line 14 reads personInfo.value.firstName
\* without a guard: a TypeError unless personInfo has a value, whatever the
\* first name
AddressAggregated(world) ==
  /\ handler.pc = "aggregating"
  /\ handler.proto = "ProofOfAddress"
  /\ AllSettled
  /\ aggregator' = Resolved(calls)
  /\ upstream' = world
  /\ LET person == aggregator'.record.personInfo
     IN IF person = Null \/ Falsy(ValueOf(person, world)) THEN Returns(InternalError)
        ELSE res' = res /\ handler' = Move("addressSession")
  /\ UNCHANGED << apiKeyPairs, currentIndex, veriffAPI, calls, catching,
                  observerVars, verified, request, sharepoint, uploads >>

\* the arguments of Promise.all are evaluated in order: the uploads before the
\* first null field are started, then reading its value throws
RECURSIVE BeforeFirstNull(_, _)
BeforeFirstNull(tasks, record) ==
  IF tasks = << >> \/ record[Head(tasks)] = Null THEN << >>
  ELSE << Head(tasks) >> \o BeforeFirstNull(Tail(tasks), record)

\* line 29: the address media are fetched if the payload names an address
AfterUploads(address) ==
  IF address
    THEN /\ res' = res
         /\ handler' = Move("addressMedia")
         /\ StartCalls({ "getAddressMedia" })
  ELSE /\ ToAttempts
       /\ UNCHANGED << apiKeyPairs, currentIndex, veriffAPI, calls, catching >>

\* line 18, then the four uploads of lines 21-26 are started and awaited
AddressSessionFolder(ok, address) ==
  /\ handler.pc = "addressSession"
  /\ IF ~ok
       THEN /\ ~address
            /\ Caught
            /\ uploads' = uploads
            /\ UNCHANGED << apiKeyPairs, currentIndex, veriffAPI, calls, catching >>
     ELSE LET started == StartedUploads(BeforeFirstNull(AddressTasks, aggregator.record),
                                        aggregator.record, upstream)
          IN /\ sharepoint' = Created(Folder("session", 0))
             /\ uploads' = [pending |-> started, rejected |-> 0]
             /\ IF SomeTaskThrows(AddressTasks, aggregator.record)
                  THEN /\ ~address
                       /\ Returns(InternalError)
                       /\ UNCHANGED << apiKeyPairs, currentIndex, veriffAPI, calls,
                                       catching >>
                ELSE IF started = << >> THEN AfterUploads(address)
                ELSE /\ ~address
                     /\ res' = res
                     /\ handler' = Move("jsonUploads")
                     /\ UNCHANGED << apiKeyPairs, currentIndex, veriffAPI, calls,
                                     catching >>
  /\ UNCHANGED << aggregator, observerVars, verified, request, upstream >>

\* one of the awaited uploads settles: a failure rejects Promise.all and is
\* caught, the last success lets line 29 run
AwaitedUploadSettles(ok, address) ==
  /\ handler.pc = "jsonUploads"
  /\ uploads.pending # << >>
  /\ uploads' = [uploads EXCEPT !.pending = Tail(@)]
  /\ IF ~ok
       THEN /\ ~address
            /\ Caught
            /\ UNCHANGED << apiKeyPairs, currentIndex, veriffAPI, calls, catching >>
     ELSE /\ sharepoint' = [sharepoint EXCEPT
                              !.files = @ \cup { File(Head(uploads.pending), 0, 0) }]
          /\ IF Tail(uploads.pending) = << >> THEN AfterUploads(address)
             ELSE /\ ~address
                  /\ res' = res
                  /\ handler' = handler
                  /\ UNCHANGED << apiKeyPairs, currentIndex, veriffAPI, calls, catching >>
  /\ UNCHANGED << aggregator, observerVars, verified, request, upstream >>

\* getAddressMedia has returned: lines 31-33, skipped without address media
AddressMediaFetched(images, videos) ==
  /\ handler.pc = "addressMedia"
  /\ calls["getAddressMedia"].pc = "done"
  /\ IF Falsy(calls["getAddressMedia"].value)
       THEN /\ images = 0 /\ videos = 0
            /\ ToAttempts
     ELSE /\ res' = res
          /\ handler' = [handler EXCEPT !.pc = "addressFolder",
                                        !.images = images, !.videos = videos]
  /\ UNCHANGED << apiKeyPairs, currentIndex, veriffAPI, calls, catching, aggregator,
                  observerVars, verified, request, sharepoint, uploads, upstream >>

CreateAddressFolder(ok) ==
  /\ handler.pc = "addressFolder"
  /\ IF ok THEN /\ sharepoint' = Created(Folder("address", 0))
                /\ handler' = Move("addressEventFolder")
                /\ res' = res
     ELSE Caught
  /\ UNCHANGED << apiKeyPairs, currentIndex, veriffAPI, calls, catching, aggregator,
                  observerVars, verified, request, uploads, upstream >>

\* line 34, then uploadMediaFiles(addressMedia.images, ...)
CreateAddressEventFolder(ok) ==
  /\ handler.pc = "addressEventFolder"
  /\ IF ok THEN /\ sharepoint' = Created(Folder("addressEvent", 0))
                /\ Continue(Target("images", 1, handler.images, handler.videos),
                            handler.images, handler.videos)
     ELSE /\ Caught
          /\ UNCHANGED << apiKeyPairs, currentIndex, veriffAPI, calls, catching >>
  /\ UNCHANGED << aggregator, observerVars, verified, request, uploads, upstream >>

NextAddress ==
  \/ InvokeHandler("ProofOfAddress", "m1")
  \/ \E op \in BatchOps \cup { "getAddressMedia", "getMediaForAttempt", "getMediaById" } :
       HandlerCall(op)
  \/ \E world \in Worlds : AddressAggregated(world)
  \/ \E ok, address \in BOOLEAN : AddressSessionFolder(ok, address)
  \/ \E ok, address \in BOOLEAN : AwaitedUploadSettles(ok, address)
  \/ \E images, videos \in 0..MaxMedia : AddressMediaFetched(images, videos)
  \/ \E ok \in BOOLEAN : CreateAddressFolder(ok)
  \/ \E ok \in BOOLEAN : CreateAddressEventFolder(ok)
  \/ \E ok \in BOOLEAN : CreateAttemptFolder(ok)
  \/ \E ok \in BOOLEAN : CreateEventFolder(ok)
  \/ \E images, videos \in 0..MaxMedia : AttemptMediaFetched(images, videos)
  \/ MediaFetched
  \/ \E ok \in BOOLEAN : MediaUploaded(ok)
  \/ \E ok \in BOOLEAN : JsonUploadSettles(ok)
  \/ RouteReturns

SpecAddress == Init /\ [][NextAddress]_vars

\* ================================================================ claims

\* ---- isolated calls (SpecCall)
Active == { op \in Ops : calls[op].pc # "idle" }

OnlyHttpErrors == \A i \in DOMAIN answers : answers[i] = "http"

\* C1: a call whose every request is answered with an HTTP error response
\* sends at most PoolSize requests, each with a different credential, rotates
\* once per answer, and after the PoolSize-th answer has returned null without
\* sending another request.
C1_ExhaustsAfterPoolSizeAttempts ==
  \A op \in Active :
    OnlyHttpErrors =>
      /\ Len(answers) <= PoolSize
      /\ Len(tried) <= PoolSize
      /\ rotations = Len(answers)
      /\ \A i, j \in DOMAIN tried : i # j => tried[i].cred # tried[j].cred
      /\ IF Len(answers) = PoolSize
           THEN calls[op].pc = "done" /\ calls[op].ret = Null /\ Len(tried) = PoolSize
         ELSE calls[op].pc = "wait" /\ Len(tried) = Len(answers) + 1

C1_Witness ==
  \E op \in Active :
    /\ PoolSize >= 2
    /\ OnlyHttpErrors
    /\ Len(answers) = PoolSize
    /\ calls[op].ret = Null

\* C2 (as claimed): a call whose request met a transport fault has made exactly
\* one attempt, has not rotated the pool and has ended in failure as soon as its
\* catch block is over.
C2_FaultEndsTheCall ==
  \A op \in Active :
    (Len(answers) >= 1 /\ answers[1] = "fault" /\ catching = "none") =>
      /\ calls[op].pc = "done"
      /\ calls[op].ret = Null
      /\ Len(tried) = 1
      /\ rotations = 0

\* C3: a call answered with j HTTP error responses and then a success, started
\* with the cursor at c, used the credentials c, c+1, ..., c+j (mod PoolSize),
\* is fulfilled with the upstream value and leaves the cursor at (c+j) mod
\* PoolSize, the pair whose key the instance carries.
C3_Precondition(op) ==
  /\ calls[op].pc = "done"
  /\ Len(answers) >= 1
  /\ answers[Len(answers)] = "ok"
  /\ \A i \in 1..(Len(answers) - 1) : answers[i] = "http"

C3_CursorRestsOnWorkingPair ==
  \A op \in Active :
    C3_Precondition(op) =>
      LET j == Len(answers) - 1
      IN /\ j < PoolSize
         /\ currentIndex = (startIndex + j) % PoolSize
         /\ Len(tried) = j + 1
         /\ \A i \in DOMAIN tried : tried[i].cred = (startIndex + i - 1) % PoolSize
         /\ veriffAPI.client = apiKeyPairs[currentIndex + 1].apiKey
         /\ calls[op].status = "fulfilled"
         /\ calls[op].ret = ResponseOf(op)
         /\ ~Falsy(calls[op].value)

C3_Witness ==
  /\ PoolSize = 2
  /\ startIndex = 0
  /\ answers = << "http", "ok" >>
  /\ C3_Precondition("getSessionDecision")
  /\ calls["getSessionDecision"].value = ResponseOf("getSessionDecision")
  /\ GetCurrentKeyPair(currentIndex) = KeyPair(2)

\* C7 (as claimed): an operation whose request ran out of credentials is
\* fulfilled with an absent value; its promise is not rejected.
C7_ExhaustionNeverThrows ==
  \A op \in Ops :
    (calls[op].pc = "done" /\ calls[op].ret = Null) =>
      (calls[op].status = "fulfilled" /\ Falsy(calls[op].value))

\* ---- signature verification (SpecVerify)
ConfiguredSecrets == { apiKeyPairs[i].sharedSecretKey : i \in DOMAIN apiKeyPairs }

\* C4: isSignatureValid answers true exactly when the signature is the digest
\* of the payload's canonical bytes under the secret of some configured pair,
\* whichever pair is active.
C4_ValidIffSomeConfiguredSecret ==
  verified.pc = "done" =>
    (verified.result <=>
       \E k \in ConfiguredSecrets :
         verified.signature = HmacSha256(k, CanonicalBytes(verified.payload)))

C4_Witness ==
  /\ verified.pc = "done"
  /\ PoolSize >= 2
  /\ currentIndex = 0
  /\ verified.signature.key = apiKeyPairs[2].sharedSecretKey
  /\ verified.result


\* ---- one aggregation batch (Spec, SpecFair)
Succeeded(op) == calls[op].pc = "done" /\ calls[op].ret = ResponseOf(op)

Exhausted(op) == calls[op].pc = "done" /\ calls[op].ret = Null

\* C5: when one of the seven calls ran out of credentials and the six others
\* succeeded, the returned record holds null in that call's field and the
\* fulfilled value of each other call in its own field.
C5_OneFailureLeavesTheOthers ==
  aggregator.pc = "returned" =>
    \A i \in BatchOps :
      (Exhausted(i) /\ \A j \in BatchOps \ {i} : Succeeded(j)) =>
        /\ aggregator.record[Field(i)] = Null
        /\ \A j \in BatchOps \ {i} :
             /\ calls[j].status = "fulfilled"
             /\ ~Falsy(calls[j].value)
             /\ aggregator.record[Field(j)] = calls[j].value

C5_Witness ==
  /\ aggregator.pc = "returned"
  /\ Cardinality(BatchOps) = 7
  /\ Exhausted("getPersonForSession")
  /\ \A j \in BatchOps \ {"getPersonForSession"} : Succeeded(j)
  /\ aggregator.record.personInfo = Null

\* C6 (as claimed): a batch that has been started returns its record, whatever
\* the answers to its requests.
C6_BatchAlwaysSettles == (aggregator.pc = "waiting") ~> (aggregator.pc = "returned")

\* C9: the cursor is always an index of the pool, and the pair it denotes and
\* the key the instance carries are configured ones, however the answers to
\* the calls in flight interleave.
C9_ActiveIndexInRange ==
  /\ currentIndex \in 0..(PoolSize - 1)
  /\ \E i \in DOMAIN apiKeyPairs :
       /\ GetCurrentKeyPair(currentIndex) = apiKeyPairs[i]
       /\ veriffAPI.client = apiKeyPairs[i].apiKey

C9_Witness ==
  /\ PoolSize >= 2
  /\ \E a, b \in BatchOps :
       /\ Exhausted(a)
       /\ calls[b].pc = "wait"
       /\ calls[b].attemptsLeft < PoolSize
  /\ Cardinality(InFlight) >= 2


\* ---- the express routes (SpecRoute)
Authentic ==
  /\ request.signature # Missing
  /\ \E k \in ConfiguredSecrets :
       request.signature = HmacSha256(k, CanonicalBytes(request.payload))

NoWorkDone ==
  /\ handler = NoHandler
  /\ aggregator.pc = "idle"
  /\ \A op \in Ops : calls[op] = Idle
  /\ sharepoint = EmptyStore
  /\ uploads = NoUploads

\* C8: a webhook whose signature header is missing or matches no configured
\* secret has been answered 401, once, by the time its route yields, and no
\* handler was created, no upstream call issued and nothing written to the
\* document store for it; a handler exists only for an authentic webhook.
C8_RejectedBeforeAnyWork ==
  request.pc # "idle" =>
    /\ ~Authentic =>
         /\ request.pc = "done"
         /\ res = << Unauthorized(request.route, request.signature) >>
         /\ NoWorkDone
    /\ handler # NoHandler => Authentic

C8_Witness ==
  /\ request.pc = "done"
  /\ request.route = "proof-of-address"
  /\ request.signature # Missing
  /\ ~Authentic
  /\ res = << [status |-> 401, body |-> "Invalid signature"] >>

\* the seven upstream calls of the batch all succeeded
AllSevenPresent ==
  /\ aggregator.pc = "returned"
  /\ \A f \in Fields : aggregator.record[f] # Null

\* nothing else failed: the document store accepted every write and the
\* media calls of the second wave were answered
NothingElseFailed ==
  /\ ~sharepoint.refused
  /\ uploads.rejected = 0
  /\ \A op \in SecondWaveOps : calls[op].ret # Null

\* every JSON document of the session is uploaded or on its way
DocumentsUploaded ==
  \A i \in DOMAIN JsonTasks :
    \/ File(JsonTasks[i], 0, 0) \in sharepoint.files
    \/ \E j \in DOMAIN uploads.pending : uploads.pending[j] = JsonTasks[i]

\* C10 (as claimed): when the decision handler has returned for a webhook
\* whose seven upstream calls all succeeded and whose person has a first
\* name, it has created the session folder, uploaded the fetched documents
\* and answered with the success response, not with 404 or 500.
C10_DecisionWebhookIsArchived ==
  ( /\ handler.pc = "returned"
    /\ handler.proto = "DecisionEvents"
    /\ AllSevenPresent
    /\ upstream.firstName
    /\ NothingElseFailed )
  => /\ res # << >>
     /\ Head(res) = Success
     /\ Folder("session", 0) \in sharepoint.folders
     /\ DocumentsUploaded

\* ---- the returned record (Spec)
\* a value that carries a status tag and a value
IsOutcome(field) == { "status", "value" } \subseteq DOMAIN field

\* C11 (as claimed): every field of the returned record is an outcome object
\* with a status tag and a value; its value is the call's result when the call
\* was fulfilled and absent when the call failed.
C11_FieldsAreOutcomes ==
  aggregator.pc = "returned" =>
    \A op \in BatchOps :
      LET field == aggregator.record[Field(op)]
      IN /\ IsOutcome(field)
         /\ field.status \in { "fulfilled", "rejected" }
         /\ IF calls[op].status = "fulfilled" /\ ~Falsy(calls[op].value)
              THEN field.value = calls[op].value
            ELSE Falsy(field.value)

\* ---- partial records (SpecHandler)
\* the person call succeeded, the person has a first name and at least one
\* other call of the batch failed
PartialWithPerson ==
  /\ aggregator.pc = "returned"
  /\ aggregator.record.personInfo # Null
  /\ \E f \in Fields : aggregator.record[f] = Null
  /\ upstream.firstName

\* every document that was fetched is uploaded or on its way
AvailableDocumentsUploaded ==
  \A i \in DOMAIN JsonTasks :
    aggregator.record[JsonTasks[i]] # Null =>
      \/ File(JsonTasks[i], 0, 0) \in sharepoint.files
      \/ \E j \in DOMAIN uploads.pending : uploads.pending[j] = JsonTasks[i]

\* C12 (as claimed): when the handler has returned for a webhook whose record
\* is partial with the person present, it has created the session folder and
\* uploaded the documents that were fetched, and it has not answered with an
\* error.
C12_PartialRecordIsUploaded ==
  (handler.pc = "returned" /\ PartialWithPerson /\ NothingElseFailed)
  => /\ res # << >>
     /\ Head(res) = Success
     /\ Folder("session", 0) \in sharepoint.folders
     /\ AvailableDocumentsUploaded

\* ---- unresolved identity (SpecAddress)
\* the person call failed, or the person has no first name
IdentityUnresolved ==
  /\ aggregator.pc = "returned"
  /\ aggregator.record.personInfo = Null \/ ~upstream.firstName

\* C13 (as claimed): for a webhook whose person cannot be identified the
\* handler creates no folder and uploads no document and no media file.
C13_UnresolvedIdentityUploadsNothing ==
  IdentityUnresolved =>
    /\ sharepoint.folders = {}
    /\ sharepoint.files = {}
    /\ uploads.pending = << >>

\* ---- verification and rotation (SpecVerify)
\* C14: the answer isSignatureValid gave under one cursor is the answer it
\* gives under every cursor the pool is rotated to afterwards, and an
\* evaluation changes neither the cursor, nor the pairs, nor the instance.
C14_VerificationIgnoresRotation ==
  /\ [](verified.pc = "done" =>
          verified.result = IsSignatureValid(verified.signature, verified.payload))
  /\ [][verified' # verified =>
          /\ currentIndex' = currentIndex
          /\ apiKeyPairs' = apiKeyPairs
          /\ veriffAPI' = veriffAPI]_vars

C14_Witness ==
  /\ verified.pc = "done"
  /\ verified.at # currentIndex
  /\ verified.signature.key = apiKeyPairs[verified.at + 1].sharedSecretKey
  /\ verified.result

\* ---- payload forms (SpecVerify)
\* the same message in another form
InForm(payload, form) == [form |-> form, msg |-> payload.msg]

\* C15 (as claimed): whatever form the payload of a verification came in, the
\* bytes digested are those of the same message in either other form, and so
\* is the answer.
C15_CanonicalBytesIgnoreForm ==
  verified.pc = "done" =>
    \A form \in { "object", "string", "buffer" } :
      /\ CanonicalBytes(InForm(verified.payload, form)) = CanonicalBytes(verified.payload)
      /\ IsSignatureValid(verified.signature, InForm(verified.payload, form))
           = verified.result

\* ---- rotation alone (SpecRotate)
\* C16: after exactly PoolSize rotations (and again after twice as many) the
\* cursor is back on the index, and the instance on the key, it started from;
\* after fewer rotations than PoolSize it is not.
C16_RotatingPoolSizeTimesIsIdentity ==
  /\ rotations \in { PoolSize, 2 * PoolSize } =>
       /\ currentIndex = startIndex
       /\ veriffAPI.client = apiKeyPairs[startIndex + 1].apiKey
  /\ (0 < rotations /\ rotations < PoolSize) => currentIndex # startIndex

C16_Witness ==
  /\ PoolSize = MaxRing
  /\ startIndex = PoolSize - 1
  /\ rotations = PoolSize
  /\ currentIndex = startIndex

\* ---- rotation by failed attempts (SpecRing)
\* C17: a request answered with an HTTP error response moves the cursor to
\* (cursor + 1) mod PoolSize, wrapping from the last index to 0, and replaces
\* the instance once; any other answer leaves the cursor alone; so after r
\* such answers the cursor is r positions (mod PoolSize) from where the call
\* began: two rotations move it by two.
C17_EachHttpErrorRotatesOnce ==
  /\ [](/\ currentIndex = (startIndex + rotations) % PoolSize
        /\ rotations = Cardinality({ i \in DOMAIN answers : answers[i] = "http" }))
  /\ [][Len(answers') = Len(answers) + 1 =>
          IF answers'[Len(answers')] = "http"
            THEN /\ currentIndex' = (currentIndex + 1) % PoolSize
                 /\ currentIndex = PoolSize - 1 => currentIndex' = 0
                 /\ rotations' = rotations + 1
          ELSE /\ currentIndex' = currentIndex
               /\ rotations' = rotations]_vars

C17_Witness ==
  /\ PoolSize = 3
  /\ startIndex = 2
  /\ answers = << "http", "http" >>
  /\ rotations = 2
  /\ currentIndex = 1

\* ---- the aggregator's promise (Spec)
\* C18: the aggregator's promise is never rejected; once the seven calls have
\* settled, in whatever combination of values, nulls and rejections, it can
\* resolve, and it resolves to a record of exactly the seven field names, each
\* holding its own call's value, or null for a call that was rejected.
C18_AggregatorNeverRejects ==
  /\ aggregator.pc \in { "idle", "waiting", "returned" }
  /\ AllSettled => ENABLED AggregatorReturn
  /\ aggregator.pc = "returned" =>
       /\ DOMAIN aggregator.record =
            { "sessionDecision", "personInfo", "mediaList", "watchlistScreening",
              "ineData", "curpData", "attempts" }
       /\ \A op \in BatchOps :
            aggregator.record[Field(op)] =
              IF calls[op].status = "fulfilled" THEN calls[op].value ELSE Null

C18_Witness ==
  /\ aggregator.pc = "returned"
  /\ calls["getPersonForSession"].status = "rejected"
  /\ calls["getSessionDecision"].status = "fulfilled"
  /\ calls["getSessionDecision"].value = Null
  /\ Succeeded("getMediaForSession")
  /\ aggregator.record.personInfo = Null
  /\ aggregator.record.mediaList = ResponseOf("getMediaForSession")

\* ---- concurrent calls on the shared pool (SpecShared)
\* the pool indices of the credentials a call's requests were made with
TriedBy(op) == { tried[i].req.cred : i \in { j \in DOMAIN tried : tried[j].op = op } }

\* C19 (as claimed): when the provider accepts at least one configured pair,
\* every one of the concurrent calls that has ended is fulfilled with the
\* provider's answer; none has run out of attempts, which it may only do after
\* a request with every pair of the pool.
C19_NoCallSkipsAWorkingCredential ==
  (upstream.pc = "accepting" /\ upstream.accepts # {}) =>
    \A op \in ConcurrentOps :
      /\ Exhausted(op) => TriedBy(op) = 0..(PoolSize - 1)
      /\ calls[op].pc = "done" => Succeeded(op)

\* C20: every request the concurrent calls dispatch carries the public key and
\* a signature made with the shared secret of one and the same configured
\* pair, the one the cursor denoted when the request was dispatched.
C20_HeadersOfOnePair ==
  \A i \in DOMAIN tried :
    LET req == tried[i].req
    IN /\ req.cred + 1 \in DOMAIN apiKeyPairs
       /\ req.client = apiKeyPairs[req.cred + 1].apiKey
       /\ req.secret = apiKeyPairs[req.cred + 1].sharedSecretKey

C20_Witness ==
  /\ PoolSize = 2
  /\ Len(tried) = MaxConcurrent + 2
  /\ tried[MaxConcurrent + 1].req.cred = 1
  /\ tried[MaxConcurrent + 1].req.client = KeyPair(2).apiKey
  /\ tried[MaxConcurrent + 2].req.cred = 0
  /\ tried[MaxConcurrent + 2].op # tried[MaxConcurrent + 1].op

\* ---- one response per webhook (SpecHandler)
\* the route has finished with the webhook
RouteFinished == request.pc \in { "done", "crashed" }

\* C21 (as claimed): when the route has finished with a webhook, exactly one
\* response was sent for it: none after the handler's own answer, and one
\* when the handler returned without answering.
C21_ExactlyOneResponse ==
  (RouteFinished /\ handler.pc = "returned") => Len(res) = 1

\* ---- the JSON uploads and the success response (SpecHandler)
\* the handler has answered with the success response
AnsweredSuccess == res # << >> /\ Head(res) = Success

\* C22 (as claimed): the success response is sent only after every JSON
\* upload the handler started has completed, and an upload the document
\* store refused is answered with the error response by the time the route
\* has finished.
C22_SuccessAfterJsonUploads ==
  /\ AnsweredSuccess => uploads.pending = << >>
  /\ (uploads.rejected > 0 /\ RouteFinished)
       => (res # << >> /\ Head(res) = InternalError)

\* ---- the all-failed record (SpecHandler)
\* every field of the returned record is absent
AllSevenAbsent ==
  /\ aggregator.pc = "returned"
  /\ \A f \in Fields : aggregator.record[f] = Null

\* C23 (as claimed): when the decision handler has returned for a webhook
\* whose seven upstream calls all failed, it has answered 404 'Data not
\* found', created no folder and uploaded nothing.
C23_AllAbsentIsNotFound ==
  (handler.pc = "returned" /\ handler.proto = "DecisionEvents" /\ AllSevenAbsent)
  => /\ res # << >>
     /\ Head(res) = NotFound
     /\ sharepoint.folders = {}
     /\ sharepoint.files = {}
     /\ uploads.pending = << >>

\* ---- absent media in the second wave (SpecHandler)
\* the media operation the handler awaited last came back without a result
LastMediaAbsent ==
  \E op \in { "getMediaForAttempt", "getMediaById" } :
    calls[op].pc = "done" /\ Falsy(calls[op].value)

\* C24 (as claimed): an absent result of a media operation is skipped as
\* unavailable data: when the handler has returned after such a result, and
\* the document store refused nothing, it went through the remaining
\* attempts and media and answered with the success response, not with the
\* error response.
C24_AbsentMediaIsSkipped ==
  (handler.pc = "returned" /\ LastMediaAbsent /\ ~sharepoint.refused)
  => AnsweredSuccess

\* ---- the cached request defaults (SpecRing)
\* C25: in every state between operations the client-identity header held by
\* the transport instance is the public key of the pair at the active index,
\* after construction and after every rotation, and a step that moves the
\* cursor replaces the instance.
C25_ClientHeaderIsActiveKey ==
  /\ [](/\ currentIndex + 1 \in DOMAIN apiKeyPairs
        /\ veriffAPI.client = apiKeyPairs[currentIndex + 1].apiKey)
  /\ [][currentIndex' # currentIndex => veriffAPI'.serial # veriffAPI.serial]_vars

C25_Witness ==
  /\ PoolSize = 3
  /\ startIndex = 2
  /\ rotations = 1
  /\ currentIndex = 0
  /\ veriffAPI.client = KeyPair(1).apiKey

\* ---- dispatch and completion within one batch (Spec)
\* the operations of the requests dispatched, in order
DispatchOrder == [i \in DOMAIN tried |-> tried[i].op]

\* C26: the seven calls of a batch are first dispatched in the order
\* decision, person, media list, watchlist, INE registry, CURP registry,
\* attempts, all of them before any of them has completed; while the batch
\* waits, any call in flight may complete next, whatever the others have
\* done; and the aggregator has returned only when all seven have settled.
C26_DispatchOrderIsFixed ==
  /\ [](aggregator.pc # "idle" =>
          DispatchOrder =
            << "getSessionDecision", "getPersonForSession", "getMediaForSession",
               "getWatchlistScreeningForSession", "getINEDataForSession",
               "getCurpRegistryData", "getAttemptsForSession" >>)
  /\ [][(aggregator.pc # "waiting" /\ aggregator'.pc = "waiting") =>
          \A op \in BatchOps : calls'[op].pc = "wait"]_vars
  /\ [](aggregator.pc = "waiting" =>
          \A op \in BatchOps :
            (calls[op].pc = "wait" /\ catching = "none") => ENABLED ReceiveSuccess(op))
  /\ [](aggregator.pc = "returned" =>
          \A op \in BatchOps : calls[op].pc = "done")

\* the last call dispatched has completed while the first is still in flight
C26_Witness ==
  /\ aggregator.pc = "waiting"
  /\ Len(tried) = 7
  /\ calls["getAttemptsForSession"].pc = "done"
  /\ calls["getSessionDecision"].pc = "wait"
  /\ calls["getCurpRegistryData"].pc = "done"
  /\ calls["getINEDataForSession"].pc = "wait"

\* ---- the second wave (SpecHandler)
\* the media fetches of the current attempt issued so far
MediaIssued ==
  IF handler.kind = "images" THEN handler.item ELSE handler.images + handler.item

\* getMediaForAttempt is issued only for an attempt id the settled batch has
\* produced
AttemptMediaAfterBatch ==
  /\ aggregator.pc = "waiting" => calls["getMediaForAttempt"].pc = "idle"
  /\ calls["getMediaForAttempt"].pc # "idle" =>
       /\ aggregator.pc = "returned"
       /\ ~Falsy(aggregator.record.attempts)
       /\ handler.attempt \in 1..upstream.attempts

\* C27 (as claimed): getMediaForAttempt is never part of the initial fan-out
\* and is issued only after the batch has settled and produced the attempt
\* id, and the media fetches of one attempt are issued together as one wave:
\* while one of them is in flight, all of them have been issued.
C27_AttemptMediaIsOneWave ==
  /\ AttemptMediaAfterBatch
  /\ (handler.pc = "mediaFetch" /\ handler.attempt >= 1) =>
       MediaIssued = handler.images + handler.videos

\* ---- the credential sequence (SpecRing)
\* C28: no step changes the credential sequence: the pairs configured at
\* construction are there, in their order, in every reachable state; and
\* when a call has rotated the pool as many times as it has pairs, the pair
\* its first, failed request was made with is the active pair again, whole.
C28_PairsNeverChange ==
  /\ [][apiKeyPairs' = apiKeyPairs]_vars
  /\ [](apiKeyPairs = [i \in 1..PoolSize |-> KeyPair(i)])
  /\ []((tried # << >> /\ rotations = PoolSize) =>
          /\ currentIndex = tried[1].cred
          /\ GetCurrentKeyPair(currentIndex).apiKey = tried[1].client
          /\ GetCurrentKeyPair(currentIndex).sharedSecretKey = tried[1].secret
          /\ veriffAPI.client = tried[1].client)

C28_Witness ==
  /\ PoolSize = 4
  /\ rotations = 4
  /\ tried # << >>
  /\ tried[1].cred = 1
  /\ currentIndex = 1
  /\ answers = << "http", "http", "http", "http" >>
  /\ calls["getMediaById"].pc = "done"

====
